---- MODULE Spec2Model ----
(***************************************************************************)
(* Model of the youtube-segments-playlist playback core:                   *)
(*   PlaylistManager      (js/PlaylistManager.js)                          *)
(*   validateVideoData    (js/utils.js)                                     *)
(*   PlayerManager        (js/PlayerManager.js, second definition)         *)
(*   TransitionScreen     (js/TransitionScreen.js)                         *)
(*   YouTubeSegmentsEngine (engine with transitions, unnamed/part_000)     *)
(*                                                                         *)
(* Every object is one variable holding a record of its fields.  The       *)
(* methods are operators from a "world" record (all objects plus the       *)
(* per-step log) to the world after the call, so that the synchronous      *)
(* callback chains of the code (store -> engine -> player) compose.        *)
(***************************************************************************)
EXTENDS Integers, Sequences, FiniteSets, TLC

VARIABLES playlistManager, localStorage, engine, playerManager,
          transitionScreen, audioManager, log, last

vars == <<playlistManager, localStorage, engine, playerManager,
          transitionScreen, audioManager, log, last>>

(***************************************************************************)
(* Bounds                                                                  *)
(***************************************************************************)
MaxLen == 2

MaxTicks == 2

\* pending delayed-skip timers of the error handler
MaxTimers == 1

\* fade animations of the transition screen running at the same time
MaxAnims == 2

\* largest start or end time of a candidate handed to validateVideoData
MaxTime == 2

\* the provider's volume scale: 0..MaxVolume, MaxVolume being the target
\* volume (100)
MaxVolume == 2

\* interval runs of one volume ramp (Math.floor(duration * 10) in the code)
FadeSteps == 2

\* pending 500 ms fade-in timers set by loadVideo
MaxFadeTimers == 2

(***************************************************************************)
(* JavaScript values: numbers, null and undefined                          *)
(***************************************************************************)
Num(n) == [k |-> "num", v |-> n]

NullV == [k |-> "null", v |-> 0]

UndefV == [k |-> "undefined", v |-> 0]

\* x || 0
OrZero(x) == IF x.k = "num" /\ x.v # 0 THEN x ELSE Num(0)

\* x || null
OrNull(x) == IF x.k = "num" /\ x.v # 0 THEN x ELSE NullV

\* ToNumber for the relational operators (null -> 0)
NumVal(x) == IF x.k = "num" THEN x.v ELSE 0

\* truthiness of a number-or-null-or-undefined value
Truthy(x) == x.k = "num" /\ x.v # 0

NoVideoId == "null"

NoVideo == [id |-> 0]

NoDoc == [playlist |-> <<>>, currentIndex |-> -1, loopEnabled |-> FALSE]

Min(a, b) == IF a < b THEN a ELSE b

Max(a, b) == IF a > b THEN a ELSE b

(***************************************************************************)
(* utils.js                                                                *)
(***************************************************************************)
\* A locator is [form, vid]: form "id" is a bare 11-character identifier,
\* "watch" a youtube.com/watch?v= URL, "bad" an unrecognised string and
\* "none" an absent or empty url.
extractVideoId(url) ==
    IF url.form \in {"id", "watch"} THEN url.vid ELSE NoVideoId

validateVideoData(videoData) ==
    LET urlErr == IF videoData.url.form = "none"
                     \/ extractVideoId(videoData.url) = NoVideoId
                  THEN <<"Valid YouTube URL or video ID is required">>
                  ELSE <<>>
        startErr == IF videoData.startTime.k # "undefined"
                       /\ (videoData.startTime.k # "num" \/ videoData.startTime.v < 0)
                    THEN <<"Start time must be a non-negative number">>
                    ELSE <<>>
        endErr == IF videoData.endTime.k # "undefined" /\ videoData.endTime.k # "null"
                  THEN IF videoData.endTime.k # "num" \/ videoData.endTime.v < 0
                       THEN <<"End time must be a non-negative number">>
                       ELSE IF videoData.startTime.k # "undefined"
                               /\ videoData.endTime.v <= NumVal(videoData.startTime)
                            THEN <<"End time must be greater than start time">>
                            ELSE <<>>
                  ELSE <<>>
        errors == urlErr \o startErr \o endErr
    IN [isValid |-> Len(errors) = 0, errors |-> errors]

\* generateId: an identifier not used by any segment of the given list
generateId(used) == CHOOSE n \in 1..(Cardinality(used) + 1) : n \notin used

Ids(playlist) == {playlist[i].id : i \in 1..Len(playlist)}

(***************************************************************************)
(* The per-step log: what the last handler returned, notified, emitted     *)
(* and loaded.                                                             *)
(***************************************************************************)
EmptyLog ==
    [ret |-> FALSE, message |-> "", notified |-> <<>>, emitted |-> <<>>,
     loads |-> <<>>, errors |-> <<>>, accepted |-> FALSE, committed |-> FALSE,
     skipped |-> FALSE, detected |-> FALSE]

\* a failed operation's result: success false and its message
Fail(w, message) == [w EXCEPT !.r = FALSE, !.log.message = message]

Emit(w, event) == [w EXCEPT !.log.emitted = Append(@, event)]

Count(seq, x) == Cardinality({i \in 1..Len(seq) : seq[i] = x})

(***************************************************************************)
(* PlayerManager (js/PlayerManager.js) and the YouTube player it wraps.    *)
(* position is the provider's current time relative to the end time of    *)
(* the loaded segment: 0 before it, 1 at or after it.  Two history fields  *)
(* record what happened since the last loadVideo: endSignals counts the    *)
(* ENDED signals checkSegmentEnd has raised, polls the polling ticks that   *)
(* ran with the current time at or after the end time (both stop at 2).    *)
(***************************************************************************)
PlayerInit(enableVolumeFade) ==
    [isReady |-> FALSE, currentVideoData |-> NoVideo, hasSegmentEnded |-> FALSE,
     progressInterval |-> FALSE, position |-> 0, endSignals |-> 0,
     polls |-> 0,
     enableVolumeFade |-> enableVolumeFade,
     volume |-> MaxVolume, nearEnd |-> FALSE,
     isFading |-> FALSE, fadeInterval |-> FALSE,
     fade |-> [startVolume |-> 0, targetVolume |-> 0, currentStep |-> 0],
     fadeInTimers |-> 0]

Clamp(volume) == Max(0, Min(MaxVolume, volume))

\* PlayerManager.setVolume(volume)
setVolume(w, volume) ==
    IF w.pl.isReady THEN [w EXCEPT !.pl.volume = Clamp(volume)] ELSE w

stopFade(w) == [w EXCEPT !.pl.fadeInterval = FALSE, !.pl.isFading = FALSE]

\* fadeVolume(targetVolume, duration): the ramp it starts
fadeVolume(w, targetVolume) ==
    IF ~w.pl.isReady THEN w
    ELSE LET w1 == stopFade(w)
         IN [w1 EXCEPT !.pl.isFading = TRUE,
                       !.pl.fadeInterval = TRUE,
                       !.pl.fade = [startVolume |-> w1.pl.volume,
                                    targetVolume |-> targetVolume,
                                    currentStep |-> 0]]

fadeIn(w) == fadeVolume(w, MaxVolume)

fadeOut(w) == fadeVolume(w, 0)

\* one run of the interval set by fadeVolume; the provider keeps whole
\* volume levels
fadeTick(w) ==
    LET currentStep == w.pl.fade.currentStep + 1
        newVolume == w.pl.fade.startVolume
                     + ((w.pl.fade.targetVolume - w.pl.fade.startVolume)
                        * currentStep) \div FadeSteps
        w1 == [w EXCEPT !.pl.fade.currentStep = currentStep,
                        !.pl.volume = Clamp(newVolume)]
    IN IF currentStep >= FadeSteps THEN stopFade(w1) ELSE w1

\* videoData.enableFade !== undefined ? videoData.enableFade
\*                                    : this.enableVolumeFade
SegmentFadeEnabled(pl, videoData) ==
    IF "enableFade" \in DOMAIN videoData THEN videoData.enableFade
    ELSE pl.enableVolumeFade

\* the provider's current time right after loadVideoById: startSeconds
StartPosition(videoData) ==
    IF Truthy(videoData.endTime)
       /\ NumVal(videoData.endTime) <= NumVal(OrZero(videoData.startTime))
    THEN 1 ELSE 0

stopProgressTracking(w) == [w EXCEPT !.pl.progressInterval = FALSE]

startProgressTracking(w) ==
    [stopProgressTracking(w) EXCEPT !.pl.progressInterval = TRUE]

\* the reset of the end-detection latch at the head of loadVideo
ResetSegmentEnded(pl) == [pl EXCEPT !.hasSegmentEnded = FALSE]

\* loadVideo(videoData): w.r is its return value
loadVideo(w, videoData) ==
    LET call == IF videoData = NoVideo THEN NoVideo
                ELSE [id |-> videoData.id, videoId |-> videoData.videoId,
                      startTime |-> videoData.startTime, endTime |-> videoData.endTime]
        w1 == [w EXCEPT !.log.loads = Append(@, call)]
    IN IF ~w.pl.isReady \/ videoData = NoVideo
       THEN [w1 EXCEPT !.r = FALSE]
       ELSE LET w2 == [w1 EXCEPT !.pl = [ResetSegmentEnded(@) EXCEPT
                                            !.currentVideoData = videoData,
                                            !.position = StartPosition(videoData),
                                            !.nearEnd = FALSE,
                                            !.endSignals = 0,
                                            !.polls = 0],
                                 !.r = TRUE]
            IN IF SegmentFadeEnabled(w2.pl, videoData)
               THEN [w2 EXCEPT !.pl.volume = 0, !.pl.fadeInTimers = @ + 1]
               ELSE [w2 EXCEPT !.pl.volume = MaxVolume]

(***************************************************************************)
(* TransitionScreen (js/TransitionScreen.js).  anims is the queue of the   *)
(* running fade animations (all last 300 ms, so they finish in the order   *)
(* they started): "fadeIn" belongs to showTransition, "hide" to a          *)
(* hideTransition nobody awaits and "hideAwaited" to the one the engine    *)
(* awaits.  shownFor is the id of the segment whose title is displayed     *)
(* (updateContent); the title text itself, like dateAdded, is display-only *)
(* data that no operation reads, and segments are modelled without it.     *)
(***************************************************************************)
\* hasContainer: createTransitionElement succeeded in init(); when it
\* threw, init() swallowed the error and this.container stayed null
TransitionInit ==
    [isVisible |-> FALSE, countdownInterval |-> FALSE, currentCountdown |-> 0,
     anims |-> <<>>, shownFor |-> 0, hasContainer |-> TRUE]

stopCountdown(w) == [w EXCEPT !.ts.countdownInterval = FALSE]

\* showTransition(nextVideo, duration): w.r is TRUE when the returned
\* promise is already resolved
showTransition(w, nextVideo) ==
    IF w.ts.isVisible
    THEN [w EXCEPT !.r = TRUE]
    ELSE IF ~w.ts.hasContainer
    \* fadeIn throws on the null container: the catch block calls
    \* hideTransition() without awaiting it and returns a resolved promise
    THEN [stopCountdown(w) EXCEPT !.ts.isVisible = TRUE,
                                  !.ts.currentCountdown = MaxTicks,
                                  !.ts.shownFor = nextVideo.id,
                                  !.r = TRUE]
    ELSE [w EXCEPT !.ts.isVisible = TRUE,
                   !.ts.currentCountdown = MaxTicks,
                   !.ts.shownFor = nextVideo.id,
                   !.ts.anims = Append(@, "fadeIn"),
                   !.log.emitted = Append(@, "transition:shown"),
                   !.r = FALSE]

\* hideTransition(): tag tells who awaits the fade out; w.r is TRUE when
\* it returned without starting one
hideTransition(w, tag) ==
    IF ~w.ts.isVisible
    THEN [w EXCEPT !.r = TRUE]
    ELSE IF ~w.ts.hasContainer
    \* fadeOut's animation frame throws on the null container, outside the
    \* promise: the fade out never resolves and isVisible stays true
    THEN [stopCountdown(w) EXCEPT !.r = FALSE]
    ELSE [stopCountdown(w) EXCEPT !.ts.anims = Append(@, tag), !.r = FALSE]

(***************************************************************************)
(* AudioManager (playSound / playCrowdCheers)                              *)
(***************************************************************************)
\* canLoad: the crowd-cheers file can be fetched and decoded
AudioInit == [isInitialized |-> FALSE, playing |-> FALSE, canLoad |-> TRUE]

\* playCrowdCheers(): w.r is TRUE when the returned promise is resolved
\* without any sound having been started
playCrowdCheers(w) ==
    IF ~w.au.isInitialized
    THEN [w EXCEPT !.r = TRUE]
    \* loadSound throws: playSound's catch block returns false
    ELSE IF ~w.au.canLoad
    THEN [w EXCEPT !.r = TRUE]
    ELSE [w EXCEPT !.au.playing = TRUE,
                   !.log.emitted = Append(@, "audio:started"),
                   !.r = FALSE]

(***************************************************************************)
(* PlaylistManager getters                                                 *)
(***************************************************************************)
getLength(w) == Len(w.pm.playlist)

getVideo(w, index) ==
    IF index >= 0 /\ index < Len(w.pm.playlist)
    THEN w.pm.playlist[index + 1] ELSE NoVideo

getCurrentVideo(w) == getVideo(w, w.pm.currentIndex)

hasNext(w) ==
    w.pm.currentIndex < Len(w.pm.playlist) - 1 \/ w.pm.loopEnabled

hasPrevious(w) == w.pm.currentIndex > 0 \/ w.pm.loopEnabled

getNextVideo(w) ==
    IF hasNext(w) THEN getVideo(w, w.pm.currentIndex + 1) ELSE NoVideo

(***************************************************************************)
(* YouTubeSegmentsEngine.loadCurrentVideo                                  *)
(***************************************************************************)
loadCurrentVideo(w) ==
    IF ~w.en.isPlayerReady THEN [w EXCEPT !.r = FALSE]
    ELSE IF getCurrentVideo(w) = NoVideo THEN [w EXCEPT !.r = FALSE]
    ELSE LET cur == getCurrentVideo(w)
             w1 == IF w.en.hasTransitionScreen /\ w.ts.isVisible
                   THEN hideTransition(w, "hide") ELSE w
             videoData == [cur EXCEPT !.videoId = extractVideoId(cur.url)]
         IN IF videoData.videoId = NoVideoId
            THEN [Emit(w1, "player:error") EXCEPT !.r = FALSE]
            ELSE LET w2 == loadVideo(w1, videoData)
                 IN IF w2.r THEN Emit(w2, "player:videoLoaded")
                    ELSE Emit(w2, "player:error")

(***************************************************************************)
(* PlaylistManager notifications: the callbacks are the ones               *)
(* YouTubeSegmentsEngine.connectComponents registers.                      *)
(***************************************************************************)
Notified(w, what) == [w EXCEPT !.log.notified = Append(@, what)]

notifyPlaylistChange(w) ==
    Emit(Notified(w, "playlistChange"), "playlist:changed")

\* variant: the callback announces the change but loads nothing
onCurrentIndexChange_NoLoad(w) == Emit(w, "playlist:currentChanged")

\* the engine's onCurrentIndexChange callback: loads when the player is ready
onCurrentIndexChange(w) ==
    LET w1 == Emit(w, "playlist:currentChanged")
    IN IF w1.en.isPlayerReady /\ getCurrentVideo(w1) # NoVideo
       THEN loadCurrentVideo(w1) ELSE w1

notifyCurrentIndexChange(w) ==
    onCurrentIndexChange(Notified(w, "currentIndexChange"))

notifyLoopToggle(w) ==
    Emit(Notified(w, "loopToggle"), "playlist:loopToggled")

saveToStorage(w) ==
    [w EXCEPT !.st = [playlist |-> w.pm.playlist,
                      currentIndex |-> w.pm.currentIndex,
                      loopEnabled |-> w.pm.loopEnabled]]

(***************************************************************************)
(* PlaylistManager operations.  Indices are 0-based as in the code; the    *)
(* playlist is a TLA+ sequence, so element i of the code is playlist[i+1]. *)
(* w.r is the operation's return value (its success flag).                 *)
(***************************************************************************)
RemoveAt(seq, index) ==
    SubSeq(seq, 1, index) \o SubSeq(seq, index + 2, Len(seq))

InsertAt(seq, index, x) ==
    SubSeq(seq, 1, index) \o <<x>> \o SubSeq(seq, index + 1, Len(seq))

SameSegment(a, b) ==
    /\ a.videoId = b.videoId
    /\ a.startTime = b.startTime
    /\ a.endTime = b.endTime

\* variant: the duplicate search compares the locator instead of the video id
HasDuplicate_ByUrl(playlist, video) ==
    \E i \in 1..Len(playlist) :
        /\ playlist[i].url = video.url
        /\ playlist[i].startTime = video.startTime
        /\ playlist[i].endTime = video.endTime

\* the duplicate search of addVideo
HasDuplicate(playlist, video) ==
    \E i \in 1..Len(playlist) : SameSegment(playlist[i], video)

\* the duplicate search of updateVideo, which skips the edited index
HasDuplicateExcept(playlist, index, video) ==
    \E i \in 1..Len(playlist) : i # index + 1 /\ SameSegment(playlist[i], video)

addVideo(w, videoData) ==
    LET validation == validateVideoData(videoData)
        videoId == extractVideoId(videoData.url)
        video == [id |-> generateId(Ids(w.pm.playlist)),
                  url |-> videoData.url,
                  videoId |-> videoId,
                  startTime |-> OrZero(videoData.startTime),
                  endTime |-> OrNull(videoData.endTime)]
    IN IF ~validation.isValid THEN Fail(w, validation.errors[1])
       ELSE IF videoId = NoVideoId
            THEN Fail(w, "Invalid YouTube URL or video ID")
       ELSE IF HasDuplicate(w.pm.playlist, video)
            THEN Fail(w, "This video segment is already in the playlist")
       ELSE [notifyPlaylistChange(saveToStorage(
                [w EXCEPT !.pm.playlist = Append(@, video)])) EXCEPT !.r = TRUE]

\* variant: the pointer is not clamped when the current, last element goes
RemoveAdjust_NoClamp(currentIndex, index, len) ==
    IF index < currentIndex THEN currentIndex - 1 ELSE currentIndex

\* variant: the pointer is not decremented when an earlier element goes
RemoveAdjust_NoDecrement(currentIndex, index, len) ==
    IF index = currentIndex /\ currentIndex >= len THEN Max(0, len - 1)
    ELSE currentIndex

\* the pointer adjustment of removeVideo; len is the length after the splice
RemoveAdjust(currentIndex, index, len) ==
    IF index < currentIndex THEN currentIndex - 1
    ELSE IF index = currentIndex /\ currentIndex >= len THEN Max(0, len - 1)
    ELSE currentIndex

removeVideo(w, index) ==
    IF index < 0 \/ index >= Len(w.pm.playlist) THEN [w EXCEPT !.r = FALSE]
    ELSE LET spliced == RemoveAt(w.pm.playlist, index)
             w1 == [w EXCEPT !.pm.playlist = spliced,
                             !.pm.currentIndex =
                                 RemoveAdjust(@, index, Len(spliced))]
         IN [notifyCurrentIndexChange(notifyPlaylistChange(saveToStorage(w1)))
               EXCEPT !.r = TRUE]

updateVideo(w, index, videoData) ==
    IF index < 0 \/ index >= Len(w.pm.playlist)
    THEN Fail(w, "Invalid video index")
    ELSE LET validation == validateVideoData(videoData)
             videoId == extractVideoId(videoData.url)
             existingVideo == w.pm.playlist[index + 1]
             updatedVideo == [existingVideo EXCEPT
                  !.url = videoData.url,
                  !.videoId = videoId,
                  !.startTime = OrZero(videoData.startTime),
                  !.endTime = OrNull(videoData.endTime)]
         IN IF ~validation.isValid THEN Fail(w, validation.errors[1])
            ELSE IF videoId = NoVideoId
                 THEN Fail(w, "Invalid YouTube URL or video ID")
            ELSE IF HasDuplicateExcept(w.pm.playlist, index, updatedVideo)
                 THEN Fail(w, "A video with the same URL and time range already exists in the playlist")
            ELSE [notifyPlaylistChange(saveToStorage(
                     [w EXCEPT !.pm.playlist[index + 1] = updatedVideo]))
                   EXCEPT !.r = TRUE]

\* variant: the pointer is not decremented when the window shifts left
MoveAdjust_NoShiftLeft(currentIndex, fromIndex, toIndex) ==
    IF fromIndex = currentIndex THEN toIndex
    ELSE IF fromIndex > currentIndex /\ toIndex <= currentIndex
         THEN currentIndex + 1
    ELSE currentIndex

\* the pointer adjustment of moveVideo
MoveAdjust(currentIndex, fromIndex, toIndex) ==
    IF fromIndex = currentIndex THEN toIndex
    ELSE IF fromIndex < currentIndex /\ toIndex >= currentIndex
         THEN currentIndex - 1
    ELSE IF fromIndex > currentIndex /\ toIndex <= currentIndex
         THEN currentIndex + 1
    ELSE currentIndex

moveVideo(w, fromIndex, toIndex) ==
    IF \/ fromIndex < 0 \/ fromIndex >= Len(w.pm.playlist)
       \/ toIndex < 0 \/ toIndex >= Len(w.pm.playlist)
       \/ fromIndex = toIndex
    THEN [w EXCEPT !.r = FALSE]
    ELSE LET video == w.pm.playlist[fromIndex + 1]
             moved == InsertAt(RemoveAt(w.pm.playlist, fromIndex), toIndex, video)
             w1 == [w EXCEPT !.pm.playlist = moved,
                             !.pm.currentIndex = MoveAdjust(@, fromIndex, toIndex)]
         IN [notifyCurrentIndexChange(notifyPlaylistChange(saveToStorage(w1)))
               EXCEPT !.r = TRUE]

clearPlaylist(w) ==
    notifyCurrentIndexChange(notifyPlaylistChange(saveToStorage(
        [w EXCEPT !.pm.playlist = <<>>, !.pm.currentIndex = 0])))

duplicateVideo(w, index) ==
    IF index < 0 \/ index >= Len(w.pm.playlist) THEN [w EXCEPT !.r = FALSE]
    ELSE LET originalVideo == w.pm.playlist[index + 1]
             duplicatedVideo == [originalVideo EXCEPT
                  !.id = generateId(Ids(w.pm.playlist))]
         IN [notifyPlaylistChange(saveToStorage(
                [w EXCEPT !.pm.playlist = InsertAt(@, index + 1, duplicatedVideo)]))
               EXCEPT !.r = TRUE]

setCurrentIndex(w, index) ==
    IF index < 0 \/ index >= Len(w.pm.playlist) THEN [w EXCEPT !.r = FALSE]
    ELSE [notifyCurrentIndexChange([w EXCEPT !.pm.currentIndex = index])
            EXCEPT !.r = TRUE]

\* variant: next() without the end-of-list test
next_NoBoundary(w) ==
    IF Len(w.pm.playlist) = 0 THEN [w EXCEPT !.r = FALSE]
    ELSE [notifyCurrentIndexChange(
             [w EXCEPT !.pm.currentIndex = @ + 1]) EXCEPT !.r = TRUE]

next(w) ==
    IF Len(w.pm.playlist) = 0 THEN [w EXCEPT !.r = FALSE]
    ELSE IF w.pm.currentIndex < Len(w.pm.playlist) - 1
    THEN [notifyCurrentIndexChange(
             [w EXCEPT !.pm.currentIndex = @ + 1]) EXCEPT !.r = TRUE]
    ELSE IF w.pm.loopEnabled
    THEN [notifyCurrentIndexChange(
             [w EXCEPT !.pm.currentIndex = 0]) EXCEPT !.r = TRUE]
    ELSE [w EXCEPT !.r = FALSE]

previous(w) ==
    IF Len(w.pm.playlist) = 0 THEN [w EXCEPT !.r = FALSE]
    ELSE IF w.pm.currentIndex > 0
    THEN [notifyCurrentIndexChange(
             [w EXCEPT !.pm.currentIndex = @ - 1]) EXCEPT !.r = TRUE]
    ELSE IF w.pm.loopEnabled
    THEN [notifyCurrentIndexChange(
             [w EXCEPT !.pm.currentIndex = Len(w.pm.playlist) - 1])
            EXCEPT !.r = TRUE]
    ELSE [w EXCEPT !.r = FALSE]

toggleLoop(w) ==
    LET w1 == notifyLoopToggle(saveToStorage(
                  [w EXCEPT !.pm.loopEnabled = ~@]))
    IN [w1 EXCEPT !.r = w1.pm.loopEnabled]

\* Math.max(0, Math.min(data.currentIndex || 0, length - 1))
ClampIndex(index, len) == Max(0, Min(index, len - 1))

loadPlaylistFromStorage(w) ==
    IF w.st # NoDoc /\ Len(w.st.playlist) > 0
    THEN [notifyLoopToggle(notifyCurrentIndexChange(notifyPlaylistChange(
            [w EXCEPT !.pm.playlist = w.st.playlist,
                      !.pm.currentIndex =
                          ClampIndex(w.st.currentIndex, Len(w.st.playlist)),
                      !.pm.loopEnabled = w.st.loopEnabled])))
           EXCEPT !.r = TRUE]
    ELSE [w EXCEPT !.r = FALSE]

(***************************************************************************)
(* importPlaylist.  A document is [ok, playlist, loopEnabled]: ok is FALSE *)
(* for a string that does not parse or has no playlist array.  An entry    *)
(* is a candidate record with an id field (0 when the entry has none).     *)
(***************************************************************************)
DocIds(entries) == {entries[i].id : i \in 1..Len(entries)} \ {0}

\* the forEach of importPlaylist: valid entries so far, dropped positions
RECURSIVE ImportEntries(_, _, _, _, _)
ImportEntries(entries, i, validVideos, errors, used) ==
    IF i > Len(entries) THEN [validVideos |-> validVideos, errors |-> errors]
    ELSE LET video == entries[i]
             newId == IF video.id # 0 THEN video.id ELSE generateId(used)
             stored == [id |-> newId,
                        url |-> video.url,
                        videoId |-> extractVideoId(video.url),
                        startTime |-> video.startTime,
                        endTime |-> video.endTime]
         IN IF validateVideoData(video).isValid
            THEN ImportEntries(entries, i + 1, Append(validVideos, stored),
                               errors, used \cup {newId})
            ELSE ImportEntries(entries, i + 1, validVideos,
                               Append(errors, i), used)

\* JSON.stringify / JSON.parse of a stored segment: the entry keeps id, url
\* and the two offsets (the stored videoId is overwritten by the import)
ExportEntry(video) ==
    [id |-> video.id, url |-> video.url,
     startTime |-> video.startTime, endTime |-> video.endTime]

\* variant: the exported document has no loopEnabled field
exportPlaylist_NoLoop(w) ==
    [ok |-> TRUE,
     playlist |-> [i \in 1..Len(w.pm.playlist) |-> ExportEntry(w.pm.playlist[i])],
     loopEnabled |-> FALSE]

\* exportPlaylist(): the document the JSON string parses to
exportPlaylist(w) ==
    [ok |-> TRUE,
     playlist |-> [i \in 1..Len(w.pm.playlist) |-> ExportEntry(w.pm.playlist[i])],
     loopEnabled |-> w.pm.loopEnabled]

\* variant: a successful import leaves the pointer where it was
importPlaylist_KeepPointer(w, doc) ==
    IF ~doc.ok THEN Fail(w, "Invalid playlist format")
    ELSE LET res == ImportEntries(doc.playlist, 1, <<>>, <<>>, DocIds(doc.playlist))
         IN IF Len(res.validVideos) = 0
            THEN Fail(w, "No valid videos found in import data")
            ELSE [notifyCurrentIndexChange(notifyPlaylistChange(saveToStorage(
                    [w EXCEPT !.pm.playlist = res.validVideos,
                              !.pm.loopEnabled = doc.loopEnabled])))
                   EXCEPT !.r = TRUE, !.log.errors = res.errors]

importPlaylist(w, doc) ==
    IF ~doc.ok THEN Fail(w, "Invalid playlist format")
    ELSE LET res == ImportEntries(doc.playlist, 1, <<>>, <<>>, DocIds(doc.playlist))
         IN IF Len(res.validVideos) = 0
            THEN Fail(w, "No valid videos found in import data")
            ELSE [notifyCurrentIndexChange(notifyPlaylistChange(saveToStorage(
                    [w EXCEPT !.pm.playlist = res.validVideos,
                              !.pm.currentIndex = 0,
                              !.pm.loopEnabled = doc.loopEnabled])))
                   EXCEPT !.r = TRUE, !.log.errors = res.errors]

(***************************************************************************)
(* YouTubeSegmentsEngine: the advance routine (handleVideoEnd).            *)
(* pc is the await the routine is suspended at; tDone and aDone tell       *)
(* whether the transition promise and the audio promise have resolved;     *)
(* these and hasNextOrLoop are locals of one run of the routine and are    *)
(* cleared when it returns.                                                *)
(* cooldownTimers counts the pending latch-release timers.  endSignals and *)
(* commits count the ENDED signals received and the next() calls the       *)
(* routine made since the last latch release.  errorTimers counts the      *)
(* pending delayed skips.  navigated and errorSegments are history fields  *)
(* kept by the specifications that observe navigation and errors (see      *)
(* UserSelected and ErrorObserved); the others leave them at their initial *)
(* values.                                                                 *)
(***************************************************************************)
EngineInit(autoAdvance, transitions, audio) ==
    [isPlayerReady |-> FALSE, isHandlingVideoEnd |-> FALSE,
     autoAdvance |-> autoAdvance,
     enableTransitionScreen |-> transitions, hasTransitionScreen |-> transitions,
     enableAudioEffects |-> audio, hasAudioManager |-> audio,
     pc |-> "idle", hasNextOrLoop |-> FALSE, tDone |-> FALSE, aDone |-> FALSE,
     cooldownTimers |-> 0, errorTimers |-> 0, endSignals |-> 0, commits |-> 0,
     navigated |-> FALSE, errorSegments |-> <<>>]

\* the test of the latch (handlePlayerStateChange and handleVideoEnd)
LatchFree(en) == ~en.isHandlingVideoEnd

\* variant: the latch is never taken
TakeLatch_Never(en) == en

\* this.isHandlingVideoEnd = true
TakeLatch(en) == [en EXCEPT !.isHandlingVideoEnd = TRUE]

\* variant: the routine waits for the audio promise only
AllSettled_AudioOnly(en) == en.aDone

\* variant: the routine waits for the transition promise only
AllSettled_TransitionOnly(en) == en.tDone

\* await Promise.all([transitionPromise, audioPromise])
AllSettled(en) == en.tDone /\ en.aDone

\* variant: the tail calls next() whether or not a next segment exists
commitAdvance_AlwaysNext(w) ==
    [Emit([next(w) EXCEPT !.en.commits = Min(@ + 1, 2)],
          "playlist:autoAdvanced")
       EXCEPT !.en.pc = "idle",
              !.en.hasNextOrLoop = FALSE,
              !.en.tDone = FALSE,
              !.en.aDone = FALSE,
              !.en.cooldownTimers = Min(@ + 1, 2),
              !.en.navigated = FALSE,
              !.log.committed = TRUE]

\* the tail of handleVideoEnd: commit the advance, start the cooldown
commitAdvance(w) ==
    LET w1 == IF w.en.hasNextOrLoop
              THEN Emit([next(w) EXCEPT !.en.commits = Min(@ + 1, 2)],
                        "playlist:autoAdvanced")
              ELSE Emit(w, "playlist:ended")
    IN [w1 EXCEPT !.en.pc = "idle",
                  !.en.hasNextOrLoop = FALSE,
                  !.en.tDone = FALSE,
                  !.en.aDone = FALSE,
                  !.en.cooldownTimers = Min(@ + 1, 2),
                  !.en.navigated = FALSE,
                  !.log.committed = TRUE]

\* after Promise.all: await this.transitionScreen.hideTransition()
afterTransition(w) ==
    LET w1 == hideTransition(w, "hideAwaited")
    IN IF w1.r THEN commitAdvance(w1) ELSE [w1 EXCEPT !.en.pc = "awaitHide"]

resumeAll(w) ==
    IF w.en.pc = "awaitAll" /\ AllSettled(w.en) THEN afterTransition(w) ELSE w

handleVideoEnd(w) ==
    IF ~LatchFree(w.en) THEN w
    ELSE LET nextVideo == getNextVideo(w)
             actualNextVideo ==
                 IF nextVideo = NoVideo /\ w.pm.loopEnabled /\ getLength(w) > 0
                 THEN getVideo(w, 0) ELSE nextVideo
             shouldShowTransition ==
                 w.en.enableTransitionScreen /\ w.en.hasTransitionScreen
             withAudio == w.en.enableAudioEffects /\ w.en.hasAudioManager
             w1 == [w EXCEPT !.en = [TakeLatch(@) EXCEPT
                                        !.hasNextOrLoop = hasNext(w),
                                        !.tDone = FALSE, !.aDone = FALSE],
                             !.log.accepted = TRUE]
         IN IF shouldShowTransition /\ actualNextVideo # NoVideo
            THEN LET w2 == showTransition(w1, actualNextVideo)
                     w3 == IF withAudio THEN playCrowdCheers(w2)
                           ELSE [w2 EXCEPT !.r = TRUE]
                 IN resumeAll([w3 EXCEPT !.en.pc = "awaitAll",
                                         !.en.tDone = w2.r,
                                         !.en.aDone = w3.r])
            ELSE IF withAudio
            THEN LET w2 == playCrowdCheers(w1)
                 IN IF w2.r THEN commitAdvance(w2)
                    ELSE [w2 EXCEPT !.en.pc = "awaitAudio"]
            ELSE commitAdvance(w1)

\* variant: the callback does not look at config.autoAdvance
handlePlayerStateChange_AlwaysAdvance(w, state) ==
    LET w1 == Emit(w, "player:stateChanged")
        w2 == IF state = "ended"
              THEN [w1 EXCEPT !.en.endSignals = Min(@ + 1, 2)] ELSE w1
    IN IF state = "ended" /\ LatchFree(w2.en)
       THEN handleVideoEnd(w2) ELSE w2

\* the engine's state-change callback; state is the provider state name
handlePlayerStateChange(w, state) ==
    LET w1 == Emit(w, "player:stateChanged")
        w2 == IF state = "ended"
              THEN [w1 EXCEPT !.en.endSignals = Min(@ + 1, 2)] ELSE w1
    IN IF state = "ended" /\ LatchFree(w2.en) /\ w2.en.autoAdvance
       THEN handleVideoEnd(w2) ELSE w2

\* the engine's error callback: schedules the delayed skip
handlePlayerError(w) ==
    LET w1 == Emit(w, "player:error")
    IN IF w1.en.autoAdvance THEN [w1 EXCEPT !.en.errorTimers = @ + 1] ELSE w1

\* variant: the ready callback does not load the current segment
handlePlayerReady_NoLoad(w) ==
    Emit([w EXCEPT !.en.isPlayerReady = TRUE], "player:ready")

handlePlayerReady(w) ==
    LET w1 == [w EXCEPT !.en.isPlayerReady = TRUE]
        w2 == IF getCurrentVideo(w1) # NoVideo THEN loadCurrentVideo(w1) ELSE w1
    IN Emit(w2, "player:ready")

(***************************************************************************)
(* PlayerManager event handlers                                            *)
(***************************************************************************)
handleStateChange(w, state) ==
    LET w1 == IF state = "playing" THEN startProgressTracking(w)
              ELSE IF state \in {"paused", "ended", "buffering"}
                   THEN stopProgressTracking(w)
              ELSE w
    IN handlePlayerStateChange(w1, state)

\* variant: checkSegmentEnd does not look at hasSegmentEnded
SegmentEndPending_NoLatch(pl) ==
    /\ pl.currentVideoData # NoVideo
    /\ Truthy(pl.currentVideoData.endTime)

\* the latch test at the head of checkSegmentEnd
SegmentEndPending(pl) ==
    /\ pl.currentVideoData # NoVideo
    /\ Truthy(pl.currentVideoData.endTime)
    /\ ~pl.hasSegmentEnded

checkSegmentEnd(w) ==
    IF ~SegmentEndPending(w.pl) THEN w
    ELSE LET w1 == IF /\ SegmentFadeEnabled(w.pl, w.pl.currentVideoData)
                      /\ (w.pl.nearEnd \/ w.pl.position >= 1)
                      /\ ~w.pl.isFading
                   THEN fadeOut(w) ELSE w
         IN IF w1.pl.position >= 1
            THEN handlePlayerStateChange(
                    stopProgressTracking(
                        [w1 EXCEPT !.pl.hasSegmentEnded = TRUE,
                                   !.pl.endSignals = Min(@ + 1, 2),
                                   !.log.detected = TRUE]),
                    "ended")
            ELSE w1

\* PlayerManager.stop()
stop(w) ==
    IF w.pl.isReady THEN stopProgressTracking(w) ELSE w

(***************************************************************************)
(* YouTubeSegmentsEngine: the public playlist API                          *)
(***************************************************************************)
engine_removeVideo(w, index) ==
    IF getVideo(w, index) = NoVideo THEN [w EXCEPT !.r = FALSE]
    ELSE LET w1 == removeVideo(w, index)
         IN IF w1.r
            THEN LET w2 == Emit(w1, "playlist:videoRemoved")
                     w3 == IF getLength(w2) = 0
                           THEN Emit(stop(w2), "playlist:cleared") ELSE w2
                 IN [w3 EXCEPT !.r = TRUE]
            ELSE Emit(w1, "playlist:error")

setCurrentVideo(w, index) ==
    LET w1 == setCurrentIndex(w, index)
    IN IF w1.r /\ w1.en.isPlayerReady
       THEN [loadCurrentVideo(w1) EXCEPT !.r = TRUE]
       ELSE w1

engine_next(w) ==
    LET w1 == next(w)
    IN IF ~w1.r THEN Emit(w1, "playlist:error") ELSE w1

engine_previous(w) ==
    LET w1 == previous(w)
    IN IF ~w1.r THEN Emit(w1, "playlist:error") ELSE w1

engine_toggleLoop(w) ==
    LET w1 == toggleLoop(w)
    IN [Emit(w1, "playlist:loopToggled") EXCEPT !.r = w1.r]

engine_clearPlaylist(w) ==
    Emit(stop(clearPlaylist(w)), "playlist:cleared")

engine_importPlaylist(w, doc) ==
    LET w1 == importPlaylist(w, doc)
    IN IF w1.r
       THEN LET w2 == Emit(w1, "playlist:imported")
                w3 == IF w2.en.isPlayerReady /\ getLength(w2) > 0
                      THEN loadCurrentVideo(setCurrentIndex(w2, 0)) ELSE w2
            IN [w3 EXCEPT !.r = TRUE]
       ELSE Emit(w1, "playlist:error")

\* variant: the delayed skip calls next() without asking hasNext()
errorSkip_AlwaysNext(w) ==
    engine_next([w EXCEPT !.en.errorTimers = @ - 1, !.log.skipped = TRUE])

\* the delayed skip scheduled by handlePlayerError
errorSkip(w) ==
    LET w1 == [w EXCEPT !.en.errorTimers = @ - 1, !.log.skipped = TRUE]
    IN IF hasNext(w1) THEN engine_next(w1) ELSE w1

(***************************************************************************)
(* Inputs                                                                  *)
(***************************************************************************)
Candidate(form, vid, startTime, endTime) ==
    [id |-> 0, url |-> [form |-> form, vid |-> vid],
     startTime |-> startTime, endTime |-> endTime]

\* candidates of the store specification: valid, duplicate-by-locator,
\* and one of every kind validateVideoData rejects
StoreCandidates ==
    { Candidate("id", "A", UndefV, Num(2)),
      Candidate("watch", "A", Num(0), Num(2)),
      Candidate("id", "B", Num(1), NullV),
      Candidate("id", "A", Num(1), Num(1)),
      Candidate("bad", "A", Num(0), Num(2)) }

ImportDocs ==
    LET a == Candidate("id", "A", Num(0), Num(2))
        b == Candidate("id", "B", Num(1), NullV)
        bad == Candidate("bad", "A", Num(0), Num(2))
        late == Candidate("id", "A", Num(2), Num(1))
    IN { [ok |-> FALSE, playlist |-> <<>>, loopEnabled |-> FALSE],
         [ok |-> TRUE, playlist |-> <<bad, late>>, loopEnabled |-> TRUE],
         [ok |-> TRUE, playlist |-> <<a, bad, b>>, loopEnabled |-> TRUE],
         [ok |-> TRUE, playlist |-> <<a, a>>, loopEnabled |-> FALSE] }

Indices == -1..MaxLen

\* every pair of positions, and pairs with one index out of range
MovePairs ==
    ((0..(MaxLen - 1)) \X (0..(MaxLen - 1)))
        \cup {<<-1, 0>>, <<0, -1>>, <<MaxLen, 0>>, <<0, MaxLen>>}

(***************************************************************************)
(* State                                                                   *)
(***************************************************************************)
World ==
    [pm |-> playlistManager, st |-> localStorage, en |-> engine,
     pl |-> playerManager, ts |-> transitionScreen, au |-> audioManager,
     log |-> EmptyLog, r |-> FALSE]

Pre ==
    [currentIndex |-> playlistManager.currentIndex,
     len |-> Len(playlistManager.playlist),
     loopEnabled |-> playlistManager.loopEnabled]

\* one handler has run: w is the world it leaves
Step(op, args, w) ==
    /\ playlistManager' = w.pm
    /\ localStorage' = w.st
    /\ engine' = w.en
    /\ playerManager' = w.pl
    /\ transitionScreen' = w.ts
    /\ audioManager' = w.au
    /\ log' = [w.log EXCEPT !.ret = w.r]
    /\ last' = [op |-> op, args |-> args, pre |-> Pre]

\* one handler of the running engine has run
StepE(w) ==
    /\ playlistManager' = w.pm
    /\ localStorage' = w.st
    /\ engine' = w.en
    /\ playerManager' = w.pl
    /\ transitionScreen' = w.ts
    /\ audioManager' = w.au
    /\ log' = [w.log EXCEPT !.ret = w.r]
    /\ UNCHANGED last

PlaylistInit == [playlist |-> <<>>, currentIndex |-> 0, loopEnabled |-> FALSE]

\* the state after construction; playlist is the one localStorage holds
InitWith(autoAdvance, transitions, audio, audioReady, playlist) ==
    /\ playlistManager = [PlaylistInit EXCEPT !.playlist = playlist]
    /\ localStorage = IF playlist = <<>> THEN NoDoc
                      ELSE [playlist |-> playlist, currentIndex |-> 0,
                            loopEnabled |-> FALSE]
    /\ engine = EngineInit(autoAdvance, transitions, audio)
    /\ playerManager = PlayerInit(FALSE)
    /\ transitionScreen = TransitionInit
    /\ audioManager = [AudioInit EXCEPT !.isInitialized = audioReady]
    /\ log = EmptyLog
    /\ last = [op |-> "init", args |-> <<>>,
               pre |-> [currentIndex |-> 0, len |-> 0, loopEnabled |-> FALSE]]

(***************************************************************************)
(* The store on its own: PlaylistManager's methods called directly         *)
(***************************************************************************)
InitStore == InitWith(TRUE, TRUE, TRUE, TRUE, <<>>)

AddVideoStep(c) == Step("addVideo", <<>>, addVideo(World, c))

AddVideo ==
    \E c \in StoreCandidates :
        /\ Len(playlistManager.playlist) < MaxLen
        /\ AddVideoStep(c)

RemoveVideoStep(i) == Step("removeVideo", <<i>>, removeVideo(World, i))

RemoveVideo == \E i \in Indices : RemoveVideoStep(i)

UpdateVideo ==
    \E i \in Indices, c \in StoreCandidates :
        Step("updateVideo", <<>>, updateVideo(World, i, c))

MoveVideoStep(p) == Step("moveVideo", p, moveVideo(World, p[1], p[2]))

MoveVideo == \E p \in MovePairs : MoveVideoStep(p)

ClearPlaylist == Step("clearPlaylist", <<>>, clearPlaylist(World))

DuplicateVideo ==
    \E i \in Indices :
        /\ Len(playlistManager.playlist) < MaxLen
        /\ Step("duplicateVideo", <<i>>, duplicateVideo(World, i))

SetCurrentIndex ==
    \E i \in Indices : Step("setCurrentIndex", <<i>>, setCurrentIndex(World, i))

NextVideo == Step("next", <<>>, next(World))

PreviousVideo == Step("previous", <<>>, previous(World))

ToggleLoop == Step("toggleLoop", <<>>, toggleLoop(World))

\* the entries of a document that validate
IsValidEntry(video) == validateVideoData(video).isValid

ValidEntries(doc) == SelectSeq(doc.playlist, IsValidEntry)

ImportPlaylistStep(doc) ==
    Step("importPlaylist", <<>>, importPlaylist(World, doc))

ImportPlaylist ==
    \E doc \in ImportDocs :
        /\ Len(ValidEntries(doc)) <= MaxLen
        /\ ImportPlaylistStep(doc)

\* the exported document is imported again
RoundTrip ==
    Step("roundTrip", <<>>, importPlaylist(World, exportPlaylist(World)))

LoadPlaylistFromStorage ==
    Step("loadPlaylistFromStorage", <<>>, loadPlaylistFromStorage(World))

\* a new page load: the constructor runs again, localStorage persists
Restart ==
    /\ playlistManager.playlist # <<>>
    /\ Step("restart", <<>>, [World EXCEPT !.pm = PlaylistInit])

NextStore ==
    \/ AddVideo
    \/ RemoveVideo
    \/ UpdateVideo
    \/ MoveVideo
    \/ ClearPlaylist
    \/ DuplicateVideo
    \/ SetCurrentIndex
    \/ NextVideo
    \/ PreviousVideo
    \/ ToggleLoop
    \/ ImportPlaylist
    \/ RoundTrip
    \/ LoadPlaylistFromStorage
    \/ Restart

SpecStore == InitStore /\ [][NextStore]_vars

(***************************************************************************)
(* The engine with its components: the public API, the provider's events,  *)
(* and the timers, animations and promises the handlers leave behind.      *)
(***************************************************************************)
\* constructor options: autoAdvance, enableTransitionScreen,
\* enableAudioEffects, and whether the audio context got initialized
Configs ==
    { <<TRUE, FALSE, FALSE, FALSE>>,
      <<TRUE, TRUE, FALSE, FALSE>>,
      <<TRUE, TRUE, TRUE, TRUE>>,
      <<TRUE, FALSE, TRUE, TRUE>>,
      <<FALSE, FALSE, FALSE, FALSE>> }

\* a stored segment, as addVideo builds and persists it
Stored(id, c) ==
    [id |-> id, url |-> c.url, videoId |-> extractVideoId(c.url),
     startTime |-> OrZero(c.startTime), endTime |-> OrNull(c.endTime)]

\* the playlists found in localStorage when the engine is constructed
StoredPlaylists ==
    LET a == Stored(1, Candidate("id", "A", Num(0), Num(2)))
        b == Stored(2, Candidate("watch", "B", Num(1), NullV))
    IN { <<a>>, <<a, b>> }

\* the constructor has run and PlaylistManager has restored the document
Init ==
    \E c \in Configs, playlist \in StoredPlaylists :
        InitWith(c[1], c[2], c[3], c[4], playlist)

\* the provider reports it is ready: PlayerManager.onPlayerReady, then the
\* engine's callback
PlayerReady ==
    /\ ~playerManager.isReady
    /\ StepE(handlePlayerReady([World EXCEPT !.pl.isReady = TRUE]))

Loaded == playerManager.isReady /\ playerManager.currentVideoData # NoVideo

ProviderPlaying ==
    /\ Loaded
    /\ StepE(handleStateChange(World, "playing"))

ProviderPaused ==
    /\ Loaded
    /\ \E state \in {"paused", "buffering"} :
          StepE(handleStateChange(World, state))

\* the provider reaches endSeconds or the end of the video
ProviderEnded ==
    /\ Loaded
    /\ StepE(handleStateChange(World, "ended"))

\* playback passes the end time of the loaded segment
ProviderAdvance ==
    /\ Loaded
    /\ playerManager.position = 0
    /\ StepE([World EXCEPT !.pl.position = 1])

SeekTo ==
    \E position \in {0, 1} :
        /\ engine.isPlayerReady
        /\ playerManager.position # position
        /\ StepE([World EXCEPT !.pl.position = position])

\* one run of the 100 ms progress interval
ProgressTick ==
    /\ playerManager.progressInterval
    /\ StepE(checkSegmentEnd(
              [World EXCEPT !.pl.polls =
                  IF /\ playerManager.currentVideoData # NoVideo
                     /\ Truthy(playerManager.currentVideoData.endTime)
                     /\ playerManager.position >= 1
                  THEN Min(@ + 1, 2) ELSE @]))

ProviderError ==
    /\ playerManager.isReady
    /\ engine.errorTimers < MaxTimers
    /\ StepE(handlePlayerError(World))

ErrorSkipTimer ==
    /\ engine.errorTimers > 0
    /\ Len(transitionScreen.anims) < MaxAnims
    /\ StepE(errorSkip(World))

\* the oldest running fade animation of the transition screen finishes
AnimDone ==
    /\ transitionScreen.anims # <<>>
    /\ LET anim == Head(transitionScreen.anims)
           w == [World EXCEPT !.ts.anims = Tail(@)]
       IN StepE(IF anim = "fadeIn"
               THEN [w EXCEPT !.ts.countdownInterval = TRUE]
               ELSE LET w1 == [w EXCEPT !.ts.isVisible = FALSE]
                    IN IF anim = "hideAwaited" /\ w1.en.pc = "awaitHide"
                       THEN commitAdvance(w1) ELSE w1)

\* one run of the countdown interval
CountdownTick ==
    /\ transitionScreen.countdownInterval
    /\ LET w == [World EXCEPT !.ts.currentCountdown = @ - 1]
       IN StepE(IF w.ts.currentCountdown <= 0
               THEN resumeAll([stopCountdown(w) EXCEPT !.en.tDone = TRUE])
               ELSE w)

\* the crowd-cheers sound ends (source.onended)
AudioEnded ==
    /\ audioManager.playing
    /\ LET w == [World EXCEPT !.au.playing = FALSE, !.en.aDone = TRUE]
       IN StepE(IF w.en.pc = "awaitAudio" THEN commitAdvance(w)
               ELSE resumeAll(w))

\* the 1000 ms timer set at the end of handleVideoEnd
CooldownTimer ==
    /\ engine.cooldownTimers > 0
    /\ StepE([World EXCEPT !.en.isHandlingVideoEnd = FALSE,
                          !.en.cooldownTimers = @ - 1,
                          !.en.endSignals = 0,
                          !.en.commits = 0])

\* the calls below may start a fade out of the transition screen
AnimsBounded == Len(transitionScreen.anims) < MaxAnims

EngineSetCurrentVideo ==
    \E i \in 0..(MaxLen - 1) :
        AnimsBounded /\ StepE(setCurrentVideo(World, i))

EngineNext == AnimsBounded /\ StepE(engine_next(World))

EnginePrevious == AnimsBounded /\ StepE(engine_previous(World))

EngineToggleLoop == StepE(engine_toggleLoop(World))

EngineClearPlaylist ==
    /\ playlistManager.playlist # <<>>
    /\ StepE(engine_clearPlaylist(World))

Next ==
    \/ PlayerReady
    \/ ProviderPlaying
    \/ ProviderPaused
    \/ ProviderEnded
    \/ ProviderAdvance
    \/ SeekTo
    \/ ProgressTick
    \/ ProviderError
    \/ ErrorSkipTimer
    \/ AnimDone
    \/ CountdownTick
    \/ AudioEnded
    \/ CooldownTimer
    \/ EngineSetCurrentVideo
    \/ EngineNext
    \/ EnginePrevious
    \/ EngineToggleLoop
    \/ EngineClearPlaylist

Spec == Init /\ [][Next]_vars

(***************************************************************************)
(* Properties of the store (checked under SpecStore)                       *)
(***************************************************************************)
Playlist == playlistManager.playlist

CurrentIndex == playlistManager.currentIndex

PointerInRange ==
    IF Len(Playlist) = 0 THEN CurrentIndex = 0
    ELSE CurrentIndex >= 0 /\ CurrentIndex <= Len(Playlist) - 1

\* C6: after any sequence of store operations currentIndex is within
\* [0, length-1] when the playlist is non-empty and is 0 when it is empty.
C6_CurrentIndexInRange == PointerInRange

\* the current, last element of a longer playlist has just been removed
C6_Witness ==
    /\ last.op = "removeVideo" /\ log.ret
    /\ last.args[1] = last.pre.currentIndex
    /\ last.pre.currentIndex = last.pre.len - 1
    /\ Len(Playlist) >= 1
    /\ CurrentIndex = Len(Playlist) - 1

\* C7: next() and previous() keep the pointer inside [0, length-1]; with
\* loop disabled next() at the last index (previous() at index 0) returns
\* false, leaves the pointer where it was and sends no "current changed"
\* notification.
C7_NextPreviousBounded ==
    /\ last.op \in {"next", "previous"} => PointerInRange
    /\ ( /\ last.op = "next"
         /\ ~last.pre.loopEnabled
         /\ last.pre.len > 0
         /\ last.pre.currentIndex = last.pre.len - 1 )
       => ( /\ ~log.ret
            /\ CurrentIndex = last.pre.currentIndex
            /\ Count(log.notified, "currentIndexChange") = 0 )
    /\ ( /\ last.op = "previous"
         /\ ~last.pre.loopEnabled
         /\ last.pre.len > 0
         /\ last.pre.currentIndex = 0 )
       => ( /\ ~log.ret
            /\ CurrentIndex = last.pre.currentIndex
            /\ Count(log.notified, "currentIndexChange") = 0 )

\* next() has just been refused at the end of a two-element playlist
C7_Witness ==
    /\ last.op = "next"
    /\ ~last.pre.loopEnabled
    /\ last.pre.len = 2
    /\ last.pre.currentIndex = 1
    /\ ~log.ret

\* C8: in every reachable playlist no two segments share the same
\* (videoId, startTime, endTime) tuple.
C8_NoDuplicateTuples ==
    \A i \in 1..Len(Playlist) : \A j \in 1..Len(Playlist) :
        i # j => ~( /\ Playlist[i].videoId = Playlist[j].videoId
                    /\ Playlist[i].startTime = Playlist[j].startTime
                    /\ Playlist[i].endTime = Playlist[j].endTime )

\* the tuple addVideo would store for a candidate (defaults applied)
TupleOf(c) ==
    [videoId |-> extractVideoId(c.url),
     startTime |-> OrZero(c.startTime),
     endTime |-> OrNull(c.endTime)]

TupleInPlaylist(c) ==
    \E i \in 1..Len(Playlist) :
        /\ Playlist[i].videoId = TupleOf(c).videoId
        /\ Playlist[i].startTime = TupleOf(c).startTime
        /\ Playlist[i].endTime = TupleOf(c).endTime

\* C9: adding a candidate whose (videoId, startTime, endTime) equals that
\* of a segment already in the playlist fails and leaves the playlist, the
\* pointer and the persisted document unchanged, without a "playlist
\* changed" notification.
C9_DuplicateAddRejected ==
    [][ \A c \in StoreCandidates :
          (TupleInPlaylist(c) /\ AddVideoStep(c))
          => ( /\ ~log'.ret
               /\ playlistManager' = playlistManager
               /\ localStorage' = localStorage
               /\ Count(log'.notified, "playlistChange") = 0 ) ]_vars

\* an add has just been refused as a duplicate
C9_Witness ==
    /\ last.op = "addVideo"
    /\ ~log.ret
    /\ log.message = "This video segment is already in the playlist"
    /\ Len(Playlist) >= 1

\* C10: removeVideo(i) with a valid i decrements the pointer by one when i
\* is before it, clamps it to the new last index (0 for a playlist that
\* becomes empty) when i is the pointer and was the last element, and
\* leaves it unchanged otherwise; with an out-of-range i it returns false
\* and changes nothing.
C10_RemoveAdjustsPointer ==
    [][ \A i \in Indices :
          RemoveVideoStep(i)
          => IF i < 0 \/ i >= Len(Playlist)
             THEN /\ ~log'.ret
                  /\ playlistManager' = playlistManager
                  /\ localStorage' = localStorage
                  /\ log'.notified = <<>>
             ELSE /\ log'.ret
                  /\ Len(playlistManager'.playlist) = Len(Playlist) - 1
                  /\ playlistManager'.currentIndex =
                       IF i < CurrentIndex THEN CurrentIndex - 1
                       ELSE IF i = CurrentIndex /\ i = Len(Playlist) - 1
                            THEN Max(0, Len(Playlist) - 2)
                       ELSE CurrentIndex ]_vars

\* an element before the pointer has just been removed
C10_Witness ==
    /\ last.op = "removeVideo"
    /\ log.ret
    /\ last.args[1] < last.pre.currentIndex
    /\ CurrentIndex = last.pre.currentIndex - 1

(***************************************************************************)
(* Properties of the advance routine (checked under Spec)                  *)
(***************************************************************************)
AtLast == Len(Playlist) > 0 /\ CurrentIndex = Len(Playlist) - 1

\* the loadVideo calls of the step are exactly one call for this segment
LoadsExactly(loads, video) ==
    /\ Len(loads) = 1
    /\ loads[1].videoId = video.videoId
    /\ loads[1].startTime = video.startTime
    /\ loads[1].endTime = video.endTime

\* the routine is suspended only while it holds the latch
LatchHeldWhileSuspended ==
    engine.pc # "idle" => engine.isHandlingVideoEnd

\* C1: an end-of-segment signal that arrives while the isHandlingVideoEnd
\* latch is set (during the transition await or the cooldown) is dropped:
\* the routine calls PlaylistManager.next() at most once between two
\* releases of the latch, and exactly once when it reports an advance.
C1_OneAdvancePerLatch ==
    [][ /\ engine'.commits <= 1
        /\ ((ProviderEnded \/ ProgressTick) /\ engine.isHandlingVideoEnd)
           => ( /\ ~log'.accepted
                /\ ~log'.committed
                /\ engine'.commits = engine.commits
                /\ playlistManager' = playlistManager
                /\ log'.loads = <<>> )
        /\ (log'.committed /\ Count(log'.emitted, "playlist:autoAdvanced") > 0)
           => engine'.commits = 1 ]_vars

\* two end signals have arrived since the latch was last free, one advance
\* has been committed and the cooldown is still running
C1_Witness ==
    /\ engine.autoAdvance
    /\ engine.endSignals = 2
    /\ engine.commits = 1
    /\ engine.isHandlingVideoEnd
    /\ engine.cooldownTimers = 1
    /\ ~log.accepted

\* C2: with auto-advance on, the transition screen and the audio effects
\* off, loop off, the player ready and the pointer at a non-last index i,
\* the step that receives a segment-end signal moves the pointer to i+1 and
\* makes exactly one loadVideo call, with segment i+1's videoId, startTime
\* and endTime.
C2_AdvanceLoadsNext ==
    [][ ( /\ log'.accepted
          /\ engine.autoAdvance
          /\ ~engine.enableTransitionScreen
          /\ ~engine.enableAudioEffects
          /\ engine.isPlayerReady
          /\ ~playlistManager.loopEnabled
          /\ CurrentIndex < Len(Playlist) - 1 )
        => ( /\ log'.committed
             /\ playlistManager'.currentIndex = CurrentIndex + 1
             /\ playlistManager'.playlist = Playlist
             /\ LoadsExactly(log'.loads, Playlist[CurrentIndex + 2]) ) ]_vars

\* an end signal at index 0 of a two-segment playlist has just been handled
C2_Witness ==
    /\ log.accepted /\ log.committed
    /\ ~engine.enableTransitionScreen /\ ~engine.enableAudioEffects
    /\ ~playlistManager.loopEnabled
    /\ Len(Playlist) = 2
    /\ CurrentIndex = 1
    /\ LoadsExactly(log.loads, Playlist[2])

\* C3: with loop off and the pointer at the last index a segment-end
\* signal leaves the playlist and the pointer unchanged and loads nothing,
\* and the routine ends with one 'playlist:ended' notification instead of
\* an advance.
C3_EndOfPlaylist ==
    [][ /\ (log'.accepted /\ ~playlistManager.loopEnabled /\ AtLast)
           => ( /\ playlistManager' = playlistManager
                /\ log'.loads = <<>>
                /\ transitionScreen' = transitionScreen
                /\ IF log'.committed
                   THEN /\ Count(log'.emitted, "playlist:ended") = 1
                        /\ Count(log'.emitted, "playlist:autoAdvanced") = 0
                   ELSE /\ engine'.pc = "awaitAudio"
                        /\ ~engine'.hasNextOrLoop )
        /\ (log'.committed /\ ~log'.accepted /\ ~engine.hasNextOrLoop)
           => ( /\ playlistManager' = playlistManager
                /\ log'.loads = <<>>
                /\ Count(log'.emitted, "playlist:ended") = 1
                /\ Count(log'.emitted, "playlist:autoAdvanced") = 0 ) ]_vars

\* the routine has just ended at the last segment of a two-segment playlist
C3_Witness ==
    /\ log.committed
    /\ Count(log.emitted, "playlist:ended") = 1
    /\ ~playlistManager.loopEnabled
    /\ Len(Playlist) = 2
    /\ CurrentIndex = 1
    /\ log.loads = <<>>

\* C4: with loop on and the pointer at the last index a segment-end signal
\* makes the pointer wrap to 0; with the transition screen enabled the
\* screen is first shown for segment 0 while nothing is loaded, and segment
\* 0 is loaded only once the countdown has run out and the screen is hidden.
C4_LoopWrap ==
    [][ /\ ( /\ log'.accepted
             /\ playlistManager.loopEnabled /\ AtLast
             /\ engine.enableTransitionScreen )
           => ( /\ transitionScreen'.isVisible
                /\ transitionScreen'.shownFor = Playlist[1].id
                /\ transitionScreen'.currentCountdown = MaxTicks
                /\ engine'.pc = "awaitAll"
                /\ ~log'.committed
                /\ playlistManager' = playlistManager
                /\ log'.loads = <<>> )
        /\ ( /\ log'.accepted
             /\ playlistManager.loopEnabled /\ AtLast
             /\ ~engine.enableTransitionScreen
             /\ ~engine.enableAudioEffects )
           => ( /\ log'.committed
                /\ playlistManager'.currentIndex = 0
                /\ LoadsExactly(log'.loads, Playlist[1]) )
        /\ ( /\ log'.committed /\ ~log'.accepted
             /\ engine.hasNextOrLoop
             /\ playlistManager.loopEnabled /\ AtLast )
           => ( /\ playlistManager'.currentIndex = 0
                /\ LoadsExactly(log'.loads, Playlist[1])
                /\ engine.pc \in {"awaitAll", "awaitHide"}
                   => ( /\ transitionScreen'.currentCountdown <= 0
                        /\ ~transitionScreen'.countdownInterval
                        /\ ~transitionScreen'.isVisible ) ) ]_vars

\* the routine has wrapped from the last segment to segment 0 after the
\* transition shown for segment 0 has run out
C4_Witness ==
    /\ log.committed /\ ~log.accepted
    /\ engine.enableTransitionScreen
    /\ playlistManager.loopEnabled
    /\ Len(Playlist) = 2
    /\ CurrentIndex = 0
    /\ LoadsExactly(log.loads, Playlist[1])
    /\ transitionScreen.shownFor = Playlist[1].id
    /\ transitionScreen.currentCountdown <= 0
    /\ ~transitionScreen.isVisible

\* C5: between two loadVideo calls checkSegmentEnd raises the ENDED signal
\* at most once, and exactly once as soon as one polling tick has run with
\* the current time at or after the end time of the loaded segment.
C5_SegmentEndOnce ==
    /\ playerManager.endSignals <= 1
    /\ playerManager.polls >= 1 => playerManager.endSignals = 1

\* two polling ticks have run past the end time, one signal was raised, and
\* the polling is running again
C5_Witness ==
    /\ playerManager.polls = 2
    /\ playerManager.endSignals = 1
    /\ playerManager.hasSegmentEnded
    /\ playerManager.progressInterval


(***************************************************************************)
(* Further properties of the store (checked under SpecStore)               *)
(***************************************************************************)
ValidIndex(i) == i >= 0 /\ i < Len(Playlist)

\* C11: moveVideo(fromIndex, toIndex) with two valid, different indices
\* relocates the segment and leaves the pointer on the segment (same id) it
\* referenced before; with an out-of-range index or equal indices it
\* returns false and changes nothing.
C11_MoveKeepsCurrentSegment ==
    [][ \A p \in MovePairs :
          MoveVideoStep(p)
          => IF ValidIndex(p[1]) /\ ValidIndex(p[2]) /\ p[1] # p[2]
             THEN /\ log'.ret
                  /\ Len(playlistManager'.playlist) = Len(Playlist)
                  /\ playlistManager'.playlist[p[2] + 1] = Playlist[p[1] + 1]
                  /\ playlistManager'.playlist[playlistManager'.currentIndex + 1].id
                       = Playlist[CurrentIndex + 1].id
             ELSE /\ ~log'.ret
                  /\ playlistManager' = playlistManager
                  /\ localStorage' = localStorage
                  /\ log'.notified = <<>> ]_vars

\* a segment before the pointer has just been moved to or past it
C11_Witness ==
    /\ last.op = "moveVideo"
    /\ log.ret
    /\ last.args[1] < last.pre.currentIndex
    /\ last.args[2] >= last.pre.currentIndex
    /\ CurrentIndex = last.pre.currentIndex - 1


\* C12: importPlaylist keeps exactly the entries that validate, in their
\* order, records one error per dropped entry and resets the pointer to 0;
\* when the document is malformed or no entry validates it fails and leaves
\* playlist, pointer, loop flag and the persisted document untouched.
C12_ImportKeepsValidEntries ==
    [][ \A doc \in ImportDocs :
          ImportPlaylistStep(doc)
          => IF doc.ok /\ Len(ValidEntries(doc)) > 0
             THEN /\ log'.ret
                  /\ Len(playlistManager'.playlist) = Len(ValidEntries(doc))
                  /\ \A k \in 1..Len(ValidEntries(doc)) :
                        /\ playlistManager'.playlist[k].url = ValidEntries(doc)[k].url
                        /\ playlistManager'.playlist[k].startTime
                             = ValidEntries(doc)[k].startTime
                        /\ playlistManager'.playlist[k].endTime
                             = ValidEntries(doc)[k].endTime
                  /\ Len(log'.errors) = Len(doc.playlist) - Len(ValidEntries(doc))
                  /\ playlistManager'.currentIndex = 0
             ELSE /\ ~log'.ret
                  /\ playlistManager' = playlistManager
                  /\ localStorage' = localStorage
                  /\ log'.notified = <<>> ]_vars

\* a document with two valid entries and one invalid entry has just been
\* imported
C12_Witness ==
    /\ last.op = "importPlaylist"
    /\ log.ret
    /\ Len(log.errors) = 1
    /\ Len(Playlist) = 2
    /\ CurrentIndex = 0


\* C13: importing the document exportPlaylist() produced yields a playlist
\* with the same segments in the same order and the same loopEnabled value
\* (the import itself succeeds exactly when the playlist is not empty).
C13_ExportImportRoundTrip ==
    [][ RoundTrip
        => ( /\ playlistManager'.playlist = Playlist
             /\ playlistManager'.loopEnabled = playlistManager.loopEnabled
             /\ log'.ret = (Len(Playlist) > 0)
             /\ log'.errors = <<>> ) ]_vars

\* a two-segment playlist with loop on has just made the round trip
C13_Witness ==
    /\ last.op = "roundTrip"
    /\ log.ret
    /\ Len(Playlist) = 2
    /\ playlistManager.loopEnabled
    /\ last.pre.currentIndex = 1


(***************************************************************************)
(* Further properties of the engine (checked under Spec)                   *)
(***************************************************************************)
\* a navigation call of the user
NavStep == EngineNext \/ EnginePrevious \/ EngineSetCurrentVideo

\* a fade out started by loadCurrentVideo is running
HidePending(ts) == \E k \in 1..Len(ts.anims) : ts.anims[k] = "hide"

\* the navigation part alone: the call starts the fade out with no
\* countdown interval left and loads the segment the pointer now names
NavigationHidesAndLoads ==
    [][ (NavStep /\ transitionScreen.isVisible /\ log'.ret)
        => ( /\ ~transitionScreen'.countdownInterval
             /\ HidePending(transitionScreen')
             /\ Len(log'.loads) >= 1
             /\ log'.loads[Len(log'.loads)].id
                  = playlistManager'.playlist[playlistManager'.currentIndex + 1].id
           ) ]_vars

\* C14: navigation (select, next, previous) while the transition screen is
\* showing cancels the transition at once -- the countdown is stopped and
\* does not run while the screen is being hidden -- and loads the segment
\* the user chose.
C14_NavigationCancelsTransition ==
    [][ /\ (NavStep /\ transitionScreen.isVisible /\ log'.ret)
           => ( /\ ~transitionScreen'.countdownInterval
                /\ HidePending(transitionScreen')
                /\ Len(log'.loads) >= 1
                /\ log'.loads[Len(log'.loads)].id
                     = playlistManager'.playlist[playlistManager'.currentIndex + 1].id
              )
        /\ HidePending(transitionScreen') => ~transitionScreen'.countdownInterval
      ]_vars


\* C15: with auto-advance disabled a segment-end signal (from the provider
\* or from the polling) or a provider error changes neither the playlist nor
\* the pointer, loads nothing, starts no advance and schedules no skip.
C15_NoAdvanceWhenDisabled ==
    [][ (~engine.autoAdvance /\ (ProviderEnded \/ ProgressTick \/ ProviderError))
        => ( /\ playlistManager' = playlistManager
             /\ log'.loads = <<>>
             /\ ~log'.accepted /\ ~log'.committed
             /\ engine'.pc = "idle"
             /\ engine'.errorTimers = 0
             /\ engine'.cooldownTimers = 0
             /\ transitionScreen' = transitionScreen
             /\ audioManager' = audioManager ) ]_vars

\* with auto-advance off two end signals have been received and a provider
\* error has just been reported
C15_Witness ==
    /\ ~engine.autoAdvance
    /\ engine.endSignals = 2
    /\ playerManager.endSignals = 1
    /\ Count(log.emitted, "player:error") = 1
    /\ engine.errorTimers = 0
    /\ Len(Playlist) = 2


\* the index next() moves to
NextIndex ==
    IF CurrentIndex < Len(Playlist) - 1 THEN CurrentIndex + 1
    ELSE IF playlistManager.loopEnabled /\ Len(Playlist) > 0 THEN 0
    ELSE CurrentIndex

\* C16: a provider error with auto-advance on schedules one delayed skip
\* and does nothing else; when the skip runs it moves the pointer to the
\* next segment if hasNext() and otherwise does nothing; neither step shows
\* the transition screen, starts the countdown or the audio, or enters the
\* advance routine.
C16_ErrorSkipBypassesTransition ==
    [][ /\ (ProviderError /\ engine.autoAdvance)
           => ( /\ engine'.errorTimers = engine.errorTimers + 1
                /\ Count(log'.emitted, "player:error") = 1
                /\ playlistManager' = playlistManager
                /\ log'.loads = <<>>
                /\ ~log'.accepted
                /\ transitionScreen' = transitionScreen
                /\ audioManager' = audioManager )
        /\ ErrorSkipTimer
           => ( /\ engine'.errorTimers = engine.errorTimers - 1
                /\ ~log'.accepted /\ ~log'.committed
                /\ engine'.pc = engine.pc
                /\ audioManager' = audioManager
                /\ transitionScreen'.isVisible = transitionScreen.isVisible
                /\ transitionScreen'.shownFor = transitionScreen.shownFor
                /\ transitionScreen'.countdownInterval
                     => transitionScreen.countdownInterval
                /\ IF CurrentIndex < Len(Playlist) - 1 \/ playlistManager.loopEnabled
                   THEN /\ playlistManager'.currentIndex = NextIndex
                        /\ playlistManager'.playlist = Playlist
                   ELSE /\ playlistManager' = playlistManager
                        /\ log'.loads = <<>>
                        /\ log'.emitted = <<>> ) ]_vars

\* the delayed skip has just moved the pointer from segment 0 to segment 1
\* and loaded it
C16_Witness ==
    /\ log.skipped
    /\ engine.autoAdvance
    /\ engine.errorTimers = 0
    /\ Len(Playlist) = 2
    /\ CurrentIndex = 1
    /\ ~playlistManager.loopEnabled
    /\ LoadsExactly(log.loads, Playlist[2])


\* the error events one handler has emitted
ErrorEvents(emitted) ==
    Count(emitted, "playlist:error") + Count(emitted, "player:error")

\* C17: a setCurrentVideo, next or previous call of the engine that
\* returns failure emits exactly one error event.
C17_FailureEmitsOneError ==
    [][ ((EngineSetCurrentVideo \/ EngineNext \/ EnginePrevious) /\ ~log'.ret)
        => ErrorEvents(log'.emitted) = 1 ]_vars


\* the persisted document holds the in-memory playlist, pointer and loop flag
Persisted ==
    /\ localStorage.playlist = playlistManager.playlist
    /\ localStorage.currentIndex = playlistManager.currentIndex
    /\ localStorage.loopEnabled = playlistManager.loopEnabled

\* the operations that call saveToStorage leave the document equal to memory
SavingOpsPersist ==
    [][ ((AddVideo \/ UpdateVideo \/ RemoveVideo \/ MoveVideo \/ ClearPlaylist
           \/ DuplicateVideo \/ ToggleLoop \/ ImportPlaylist \/ RoundTrip)
         /\ playlistManager' # playlistManager) => Persisted' ]_vars

\* C18: after every store operation that changes the playlist, the pointer
\* or the loop flag, the persisted document equals the in-memory state.
C18_PersistedAfterEveryChange ==
    [][ ((AddVideo \/ UpdateVideo \/ RemoveVideo \/ MoveVideo \/ ClearPlaylist
           \/ SetCurrentIndex \/ NextVideo \/ PreviousVideo \/ ToggleLoop
           \/ ImportPlaylist)
         /\ playlistManager' # playlistManager) => Persisted' ]_vars


(***************************************************************************)
(* validateVideoData on its own: the initial state holds one candidate     *)
(* (in last.args), the actions hand it to validateVideoData and to         *)
(* PlaylistManager.addVideo on an empty playlist.                          *)
(***************************************************************************)
ValidationInputs ==
    LET TimeValues == {UndefV, NullV} \cup {Num(n) : n \in -1..MaxTime}
    IN { Candidate(form, vid, startTime, endTime) :
           form \in {"id", "watch", "bad", "none"}, vid \in {"A"},
           startTime \in TimeValues, endTime \in TimeValues }

InitValidate ==
    /\ playlistManager = PlaylistInit
    /\ localStorage = NoDoc
    /\ engine = EngineInit(TRUE, TRUE, TRUE)
    /\ playerManager = PlayerInit(FALSE)
    /\ transitionScreen = TransitionInit
    /\ audioManager = [AudioInit EXCEPT !.isInitialized = TRUE]
    /\ log = EmptyLog
    /\ \E c \in ValidationInputs :
          last = [op |-> "input", args |-> <<c>>,
                  pre |-> [currentIndex |-> 0, len |-> 0, loopEnabled |-> FALSE]]

ValidateVideoData ==
    /\ last.op = "input"
    /\ LET validation == validateVideoData(last.args[1])
       IN Step("validateVideoData", last.args,
               [World EXCEPT !.r = validation.isValid,
                             !.log.errors = validation.errors])

AddCandidate ==
    /\ last.op = "input"
    /\ Step("addVideo", last.args, addVideo(World, last.args[1]))

NextValidate == ValidateVideoData \/ AddCandidate

SpecValidate == InitValidate /\ [][NextValidate]_vars

\* the start time a candidate counts with: 0 when it has none
StartOrZero(videoData) ==
    IF videoData.startTime.k = "num" THEN videoData.startTime.v ELSE 0

\* C19: validateVideoData answers invalid for every candidate whose end
\* time is a number not strictly greater than its start time, an absent
\* start time counting as 0; addVideo stores no such candidate.
C19_EndMustExceedStart ==
    (/\ last.op \in {"validateVideoData", "addVideo"}
     /\ last.args[1].endTime.k = "num"
     /\ last.args[1].endTime.v <= StartOrZero(last.args[1]))
    => ~log.ret


\* C20: while the Monitor's hasSegmentEnded latch is set, neither a polling
\* tick nor a provider ENDED event makes the Monitor call its state-change
\* subscriber (the engine's handlePlayerStateChange, which emits
\* 'player:stateChanged' on every call).
C20_NoEndSignalAfterLatch ==
    [][ (playerManager.hasSegmentEnded /\ (ProgressTick \/ ProviderEnded))
        => Count(log'.emitted, "player:stateChanged") = 0 ]_vars


(***************************************************************************)
(* Liveness.  The browser runs every pending timer, interval, animation    *)
(* frame and audio 'ended' event: each of these steps is taken if it stays *)
(* enabled.  Provider events and user calls are not forced.                *)
(***************************************************************************)
\* The hand-off on its own: the engine with the transition screen enabled
\* (with and without audio effects), end signals coming from the provider;
\* playback position and polling are left out.
InitHandOff ==
    \E audio \in BOOLEAN, playlist \in StoredPlaylists :
        InitWith(TRUE, TRUE, audio, audio, playlist)

\* a call of the user returns: navigated records a selection that succeeded
\* while handleVideoEnd is suspended
UserSelected(w) ==
    IF engine.pc # "idle" /\ w.r = TRUE
    THEN [w EXCEPT !.en.navigated = TRUE] ELSE w

\* the user calls setCurrentVideo, next or previous
UserNavigation ==
    /\ AnimsBounded
    /\ \/ \E i \in 0..(MaxLen - 1) :
             StepE(UserSelected(setCurrentVideo(World, i)))
       \/ StepE(UserSelected(engine_next(World)))
       \/ StepE(UserSelected(engine_previous(World)))

NextHandOff ==
    \/ PlayerReady
    \/ ProviderEnded
    \/ ProviderError
    \/ ErrorSkipTimer
    \/ AnimDone
    \/ CountdownTick
    \/ AudioEnded
    \/ CooldownTimer
    \/ UserNavigation
    \/ EngineToggleLoop
    \/ EngineClearPlaylist

\* timers, intervals, animations and the end of the audio are scheduled by
\* the browser: each runs if it stays pending
SpecHandOff ==
    /\ InitHandOff /\ [][NextHandOff]_vars
    /\ WF_vars(AnimDone)
    /\ WF_vars(CountdownTick)
    /\ WF_vars(AudioEnded)
    /\ WF_vars(CooldownTimer)
    /\ WF_vars(ErrorSkipTimer)

\* C21: whenever the isHandlingVideoEnd latch is set it is eventually
\* released.
C21_LatchEventuallyReleased ==
    engine.isHandlingVideoEnd ~> ~engine.isHandlingVideoEnd


\* the advance routine is suspended on a transition it has started
TransitionInFlight == engine.pc \in {"awaitAll", "awaitHide", "awaitAudio"}

\* C22: while the advance routine waits on a transition, no end signal and
\* no delayed error skip moves the pointer or loads a segment, and the
\* advance is committed only by the step that completes the transition.
C22_NoAdvanceDuringTransition ==
    [][ /\ (TransitionInFlight
             /\ (ProviderEnded \/ ProgressTick \/ ProviderError \/ ErrorSkipTimer))
           => ( /\ playlistManager'.currentIndex = playlistManager.currentIndex
                /\ log'.loads = <<>>
                /\ ~log'.committed )
        /\ (TransitionInFlight /\ log'.committed)
           => (AnimDone \/ CountdownTick \/ AudioEnded) ]_vars


\* C23: an end signal accepted at the last index with loop off starts
\* neither the transition screen nor the crowd-cheers audio, and notifies
\* 'playlist:ended' in the same step.
C23_NoEffectsAtEndOfPlaylist ==
    [][ (log'.accepted /\ ~playlistManager.loopEnabled /\ AtLast)
        => ( /\ transitionScreen' = transitionScreen
             /\ Count(log'.emitted, "transition:shown") = 0
             /\ audioManager' = audioManager
             /\ Count(log'.emitted, "audio:started") = 0
             /\ Count(log'.emitted, "playlist:ended") = 1 ) ]_vars


\* C24: with the transition screen and the audio effects both enabled, a
\* hand-off that shows the screen commits the advance only in a state where
\* the countdown has run out and its interval is stopped and the crowd
\* cheers have ended; until then the pointer stays where it was.
C24_CommitAfterCountdownAndAudio ==
    [][ /\ ( /\ engine.enableTransitionScreen /\ engine.enableAudioEffects
             /\ engine.pc \in {"awaitAll", "awaitHide"}
             /\ log'.committed )
           => ( /\ transitionScreen'.currentCountdown <= 0
                /\ ~transitionScreen'.countdownInterval
                /\ ~audioManager'.playing )
        /\ ( /\ engine.enableTransitionScreen /\ engine.enableAudioEffects
             /\ engine.pc = "awaitAll"
             /\ (CountdownTick \/ AudioEnded)
             /\ (audioManager'.playing \/ transitionScreen'.countdownInterval) )
           => ( /\ ~log'.committed
                /\ playlistManager' = playlistManager
                /\ log'.loads = <<>> ) ]_vars

\* the hand-off from segment 0 to segment 1 has just been committed with
\* both effects enabled
C24_Witness ==
    /\ log.committed
    /\ engine.enableTransitionScreen /\ engine.enableAudioEffects
    /\ Count(log.emitted, "playlist:autoAdvanced") = 1
    /\ Len(Playlist) = 2
    /\ CurrentIndex = 1
    /\ LoadsExactly(log.loads, Playlist[2])
    /\ ~audioManager.playing
    /\ transitionScreen.currentCountdown = 0


(***************************************************************************)
(* Hand-offs with a failing decorative effect: the transition screen whose *)
(* init() failed (no container), the crowd-cheers file that cannot be      *)
(* loaded, or both.  Only the provider, the timers and the animations act. *)
(***************************************************************************)
InitFailing ==
    \E f \in { <<FALSE, TRUE>>, <<TRUE, FALSE>>, <<FALSE, FALSE>> },
       playlist \in StoredPlaylists :
        /\ playlistManager = [PlaylistInit EXCEPT !.playlist = playlist]
        /\ localStorage = [playlist |-> playlist, currentIndex |-> 0,
                           loopEnabled |-> FALSE]
        /\ engine = EngineInit(TRUE, TRUE, TRUE)
        /\ playerManager = PlayerInit(FALSE)
        /\ transitionScreen = [TransitionInit EXCEPT !.hasContainer = f[1]]
        /\ audioManager = [AudioInit EXCEPT !.isInitialized = TRUE,
                                            !.canLoad = f[2]]
        /\ log = EmptyLog
        /\ last = [op |-> "init", args |-> <<>>,
                   pre |-> [currentIndex |-> 0, len |-> 0, loopEnabled |-> FALSE]]

NextFailing ==
    \/ PlayerReady
    \/ ProviderPlaying
    \/ ProviderPaused
    \/ ProviderEnded
    \/ ProviderAdvance
    \/ SeekTo
    \/ ProgressTick
    \/ AnimDone
    \/ CountdownTick
    \/ AudioEnded
    \/ CooldownTimer
    \/ EngineToggleLoop

SpecFailing ==
    /\ InitFailing /\ [][NextFailing]_vars
    /\ WF_vars(AnimDone)
    /\ WF_vars(CountdownTick)
    /\ WF_vars(AudioEnded)
    /\ WF_vars(CooldownTimer)

\* a hand-off whose crowd-cheers sound cannot be loaded is still committed
AudioFailureStillCommits ==
    (TransitionInFlight /\ transitionScreen.hasContainer) ~> log.committed

FadeSegments ==
    LET a == Stored(1, Candidate("id", "A", Num(0), Num(2)))
    IN { a,
         [id |-> 2, url |-> a.url, videoId |-> a.videoId,
          startTime |-> a.startTime, endTime |-> a.endTime,
          enableFade |-> TRUE],
         [id |-> 3, url |-> a.url, videoId |-> a.videoId,
          startTime |-> a.startTime, endTime |-> a.endTime,
          enableFade |-> FALSE] }

InitFade ==
    \E enableVolumeFade \in BOOLEAN :
        /\ playlistManager = PlaylistInit
        /\ localStorage = NoDoc
        /\ engine = [EngineInit(FALSE, FALSE, FALSE) EXCEPT !.isPlayerReady = TRUE]
        /\ playerManager = [PlayerInit(enableVolumeFade) EXCEPT !.isReady = TRUE]
        /\ transitionScreen = TransitionInit
        /\ audioManager = AudioInit
        /\ log = EmptyLog
        /\ last = [op |-> "init", args |-> <<>>,
                   pre |-> [currentIndex |-> 0, len |-> 0, loopEnabled |-> FALSE]]

LoadVideo ==
    \E videoData \in FadeSegments :
        /\ playerManager.fadeInTimers < MaxFadeTimers
        /\ Step("loadVideo", <<videoData>>, loadVideo(World, videoData))

\* the 500 ms timer set by loadVideo
FadeInTimer ==
    /\ playerManager.fadeInTimers > 0
    /\ Step("fadeInTimer", <<>>, fadeIn([World EXCEPT !.pl.fadeInTimers = @ - 1]))

\* one run of the ramp's interval
FadeTick ==
    /\ playerManager.fadeInterval
    /\ Step("fadeTick", <<>>, fadeTick(World))

\* the user sets the volume (engine.setVolume)
SetVolume ==
    \E volume \in 0..MaxVolume :
        /\ engine.isPlayerReady
        /\ Step("setVolume", <<volume>>, setVolume(World, volume))

\* playback comes within fadeOutDuration of the end time
ProviderNearEnd ==
    /\ Loaded
    /\ ~playerManager.nearEnd
    /\ playerManager.position = 0
    /\ Step("nearEnd", <<>>, [World EXCEPT !.pl.nearEnd = TRUE])

FadePlaying == Loaded /\ Step("playing", <<>>, handleStateChange(World, "playing"))

FadeAdvance ==
    /\ Loaded
    /\ playerManager.position = 0
    /\ Step("advance", <<>>, [World EXCEPT !.pl.position = 1])

FadeProgressTick ==
    /\ playerManager.progressInterval
    /\ Step("progressTick", <<>>, checkSegmentEnd(World))

NextFade ==
    \/ LoadVideo
    \/ FadeInTimer
    \/ FadeTick
    \/ SetVolume
    \/ ProviderNearEnd
    \/ FadePlaying
    \/ FadeAdvance
    \/ FadeProgressTick

SpecFade == InitFade /\ [][NextFade]_vars


(***************************************************************************)
(* Properties of the volume handling (checked under SpecFade)              *)
(***************************************************************************)
\* the fade setting in force for the loaded segment is off
FadeDisabled ==
    /\ playerManager.currentVideoData # NoVideo
    /\ ~SegmentFadeEnabled(playerManager, playerManager.currentVideoData)

\* C26: when loadVideo returns true, no volume ramp is running, the only
\* pending fade-in timer is the one this load has set (none when the
\* segment's fade is off), and hasSegmentEnded is false.
C26_LoadCancelsFades ==
    [][ (LoadVideo /\ log'.ret)
        => ( /\ ~playerManager'.fadeInterval
             /\ ~playerManager'.isFading
             /\ playerManager'.fadeInTimers
                  = (IF FadeDisabled' THEN 0 ELSE 1)
             /\ ~playerManager'.hasSegmentEnded ) ]_vars

\* loadVideo resets the end-detection latch
LoadResetsLatch ==
    [][ (LoadVideo /\ log'.ret) => ~playerManager'.hasSegmentEnded ]_vars

\* C28: a setVolume call made while a ramp is running stops the ramp and
\* leaves the volume at the value the user gave.
C28_SetVolumeCancelsFade ==
    [][ (SetVolume /\ playerManager.fadeInterval)
        => ( /\ ~playerManager'.fadeInterval
             /\ ~playerManager'.isFading
             /\ playerManager'.volume = last'.args[1] ) ]_vars

\* C29: while a segment whose fade setting is off is loaded, the volume is
\* the target volume after the load and no timer, ramp or polling step
\* changes it.
C29_NoFadeWhenDisabled ==
    [][ /\ (LoadVideo /\ log'.ret /\ FadeDisabled')
           => playerManager'.volume = MaxVolume
        /\ (FadeDisabled /\ (FadeInTimer \/ FadeTick \/ FadeProgressTick))
           => playerManager'.volume = playerManager.volume ]_vars


(***************************************************************************)
(* Further properties of the engine (checked under Spec)                   *)
(***************************************************************************)
\* C27: a navigation, loop toggle or clear made before the provider is
\* ready loads nothing; the step in which the ready signal arrives loads
\* the store's current segment exactly once, or nothing when the playlist
\* is empty.
C27_DeferredLoadOnReady ==
    [][ /\ ( /\ ~engine.isPlayerReady
             /\ (NavStep \/ EngineToggleLoop \/ EngineClearPlaylist) )
           => ( /\ log'.loads = <<>>
                /\ Count(log'.emitted, "player:videoLoaded") = 0 )
        /\ PlayerReady
           => ( /\ engine'.isPlayerReady
                /\ playlistManager' = playlistManager
                /\ IF Len(Playlist) > 0
                   THEN /\ LoadsExactly(log'.loads, Playlist[CurrentIndex + 1])
                        /\ playerManager'.currentVideoData.id
                             = Playlist[CurrentIndex + 1].id
                   ELSE log'.loads = <<>> ) ]_vars

\* the ready signal has just arrived after the pointer had been moved to
\* segment 1: that segment is the one loaded
C27_Witness ==
    /\ Count(log.emitted, "player:ready") = 1
    /\ engine.isPlayerReady
    /\ Len(Playlist) = 2
    /\ CurrentIndex = 1
    /\ LoadsExactly(log.loads, Playlist[2])


\* the advance routine has just finished with a pointer advance that
\* succeeded or with the 'playlist:ended' notification
AdvancedOrEnded ==
    /\ log.committed
    /\ \/ Count(log.emitted, "playlist:ended") = 1
       \/ /\ Count(log.emitted, "playlist:autoAdvanced") = 1
          /\ Count(log.notified, "currentIndexChange") >= 1

\* C30: every end signal the advance routine accepts is eventually followed
\* by a successful pointer advance or by 'playlist:ended'.
C30_AcceptedSignalCompletes ==
    log.accepted ~> AdvancedOrEnded


(***************************************************************************)
(* Properties of the interplay of loads, end signals and timers            *)
(***************************************************************************)
\* The engine without transition screen and audio effects: an accepted end
\* signal commits at once and starts the one-second cooldown.  The provider
\* plays, ends and fails, the user navigates and edits the playlist.
\* errorSegments holds, for each pending delayed skip in the order the
\* timers were set, the id of the segment the Monitor had loaded when the
\* error was raised.
InitEdit ==
    \E autoAdvance \in BOOLEAN, playlist \in StoredPlaylists :
        InitWith(autoAdvance, FALSE, FALSE, FALSE, playlist)

ErrorObserved ==
    /\ playerManager.isReady
    /\ engine.errorTimers < MaxTimers
    /\ StepE([handlePlayerError(World) EXCEPT
                 !.en.errorSegments =
                     IF engine.autoAdvance
                     THEN Append(@, playerManager.currentVideoData.id) ELSE @])

SkipObserved ==
    /\ engine.errorTimers > 0
    /\ StepE([errorSkip(World) EXCEPT !.en.errorSegments = Tail(@)])

EngineRemoveVideo ==
    \E index \in 0..(MaxLen - 1) : StepE(engine_removeVideo(World, index))

EngineImportPlaylist ==
    \E doc \in ImportDocs : StepE(engine_importPlaylist(World, doc))

NextEdit ==
    \/ PlayerReady
    \/ ProviderPlaying
    \/ ProviderEnded
    \/ ProviderAdvance
    \/ ProgressTick
    \/ CooldownTimer
    \/ ErrorObserved
    \/ SkipObserved
    \/ EngineToggleLoop
    \/ EngineSetCurrentVideo
    \/ EngineNext
    \/ EnginePrevious
    \/ EngineRemoveVideo
    \/ EngineImportPlaylist

SpecEdit == InitEdit /\ [][NextEdit]_vars

\* Playback and navigation alone; the polling interval and the cooldown
\* timer run whenever they are pending.
NextCooldown ==
    \/ PlayerReady
    \/ ProviderPlaying
    \/ ProviderPaused
    \/ ProviderEnded
    \/ ProviderAdvance
    \/ SeekTo
    \/ ProgressTick
    \/ CooldownTimer
    \/ EngineToggleLoop
    \/ EngineNext
    \/ EnginePrevious

SpecCooldown ==
    /\ InitEdit /\ [][NextCooldown]_vars
    /\ WF_vars(ProgressTick)
    /\ WF_vars(CooldownTimer)

\* the end of the loaded segment has just been detected and signalled, and
\* the advance routine did not start
EndedUnhandled ==
    /\ engine.autoAdvance
    /\ log.detected
    /\ ~log.accepted

\* C31: with auto-advance on, a loaded segment whose end has been reached
\* and signalled eventually has the advance routine run for it (or is
\* replaced by another load).
C31_EndedSegmentIsHandled ==
    EndedUnhandled ~> (log.accepted \/ ~playerManager.hasSegmentEnded)

\* C32: once the user has selected a segment while the advance routine is
\* suspended, the routine's commit leaves the pointer where the user put it.
C32_PendingAdvanceKeepsUserChoice ==
    [][(engine.navigated /\ log'.committed)
          => playlistManager'.currentIndex = playlistManager.currentIndex]_vars

\* C33: the delayed skip moves the pointer only when the pointer still
\* references the segment that raised the error.
C33_SkipOnlyTheFailedSegment ==
    [][(/\ engine.errorTimers > 0
        /\ log'.skipped
        /\ playlistManager'.currentIndex # playlistManager.currentIndex)
          => getCurrentVideo(World).id = Head(engine.errorSegments)]_vars

\* the advance routine is suspended after announcing a segment on the
\* transition screen, and the user has not navigated since
Announced ==
    /\ engine.pc \in {"awaitAll", "awaitHide"}
    /\ ~engine.navigated
    /\ engine.errorTimers = 0

\* C34: when the advance routine commits, the segment it makes current and
\* loads is the one it announced on the transition screen.
C34_CommitLoadsAnnouncedSegment ==
    [][(Announced /\ log'.committed)
          => /\ getCurrentVideo([pm |-> playlistManager']).id
                    = transitionScreen.shownFor
             /\ playerManager'.currentVideoData.id
                    = transitionScreen.shownFor
             /\ Len(log'.loads) >= 1]_vars

\* a successful navigation or import call of the engine
NavigationCall ==
    /\ \/ EngineSetCurrentVideo
       \/ EngineNext
       \/ EnginePrevious
       \/ EngineImportPlaylist
    /\ log'.ret = TRUE

\* C35: with the provider ready, a successful setCurrentVideo, next,
\* previous or importPlaylist of the engine makes exactly one loadVideo call.
C35_OneLoadPerNavigation ==
    [][(engine.isPlayerReady /\ NavigationCall)
          => Len(log'.loads) = 1]_vars

\* the engine removes a segment other than the current one while a segment
\* is loaded
RemoveOther ==
    /\ Loaded
    /\ \E index \in 0..(MaxLen - 1) :
          /\ index # playlistManager.currentIndex
          /\ StepE(engine_removeVideo(World, index))
    /\ log'.ret = TRUE

\* C36: removing a segment other than the current one makes no loadVideo
\* call and leaves the Monitor's end-detection latch as it was.
C36_RemoveOtherLeavesPlayback ==
    [][RemoveOther
          => /\ log'.loads = <<>>
             /\ playerManager'.hasSegmentEnded
                    = playerManager.hasSegmentEnded]_vars

(***************************************************************************)
(* A provider that fails every load: each loadVideo call is answered by an *)
(* error, and the delayed skip runs 2000 ms later.  The loop setting and   *)
(* the starting segment are chosen before the provider is ready.           *)
(***************************************************************************)
ChooseBeforeReady ==
    /\ ~playerManager.isReady
    /\ (EngineToggleLoop \/ EngineSetCurrentVideo)

\* the provider answers the load made in the last step with an error
LoadError ==
    /\ log.loads # <<>>
    /\ ProviderError

NextAllFail ==
    \/ ChooseBeforeReady
    \/ PlayerReady
    \/ LoadError
    \/ ErrorSkipTimer

SpecAllFail ==
    /\ Init /\ [][NextAllFail]_vars
    /\ WF_vars(PlayerReady)
    /\ WF_vars(LoadError)
    /\ WF_vars(ErrorSkipTimer)

\* the delayed skip has just made a loadVideo call
SkipLoaded == log.skipped /\ log.loads # <<>>

\* C37: when every load raises an error, the delayed skips eventually stop
\* making loadVideo calls.
C37_SkippingStops ==
    <>[](~SkipLoaded)

(***************************************************************************)
(* The store with imported entries that leave startTime out, and with      *)
(* duplicateVideo called on a full playlist.                               *)
(***************************************************************************)
ImportShapes ==
    \E doc \in
          LET a == Candidate("id", "A", Num(0), Num(2))
              b == Candidate("watch", "B", Num(1), NullV)
              zero == Candidate("id", "A", UndefV, Num(0))
              late == Candidate("id", "A", Num(2), Num(1))
          IN { [ok |-> TRUE, playlist |-> <<a, late>>, loopEnabled |-> FALSE],
               [ok |-> TRUE, playlist |-> <<b>>, loopEnabled |-> FALSE],
               [ok |-> TRUE, playlist |-> <<zero, a>>, loopEnabled |-> TRUE] } :
        /\ Len(ValidEntries(doc)) <= MaxLen
        /\ ImportPlaylistStep(doc)

DuplicateAt ==
    \E i \in Indices :
        /\ Len(playlistManager.playlist) <= MaxLen
        /\ Step("duplicateVideo", <<i>>, duplicateVideo(World, i))

NextShape ==
    \/ AddVideo
    \/ UpdateVideo
    \/ DuplicateAt
    \/ SetCurrentIndex
    \/ ImportShapes
    \/ LoadPlaylistFromStorage
    \/ Restart

SpecShape == InitStore /\ [][NextShape]_vars

WellFormed(video) ==
    /\ video.videoId # NoVideoId
    /\ video.startTime.k = "num"
    /\ video.startTime.v >= 0
    /\ \/ video.endTime.k \in {"null", "undefined"}
       \/ /\ video.endTime.k = "num"
          /\ video.endTime.v > video.startTime.v

\* C38: every stored segment has a video id, a start time of at least 0 and
\* an end time that is absent or greater than the start time.
C38_StoredSegmentsWellFormed ==
    \A i \in 1..Len(playlistManager.playlist) :
        WellFormed(playlistManager.playlist[i])

\* C39: in every store state hasNext() tells what next() would return, and
\* hasPrevious() what previous() would return.
C39_HasNextAgreesWithNext ==
    /\ hasNext(World) = next(World).r
    /\ hasPrevious(World) = previous(World).r

\* C40: a successful duplicateVideo leaves the pointer on the segment (same
\* id) it referenced before the call.
C40_DuplicateKeepsCurrentSegment ==
    [][(DuplicateAt /\ log'.ret = TRUE)
          => getCurrentVideo([pm |-> playlistManager']).id
                = getCurrentVideo(World).id]_vars

====
